---- MODULE Spec2Model ----
(***************************************************************************)
(* A model of bin/dquota.py: main() of the quota checking script.  The     *)
(* script reads its options, queries the GPFS backend once, walks the      *)
(* configured storage names in order, classifies the exceeding filesets    *)
(* and users of every storage, records nagios statistics, notifies, and    *)
(* ends either in opts.epilogue(...) or, after any exception, in           *)
(* opts.critical(...) followed by sys.exit.                                *)
(*                                                                         *)
(* The helpers of vsc.filesystem.quota.tools (the normalizer, the two      *)
(* classifiers and the two dispatchers) are not part of bin/dquota.py;     *)
(* they are modelled after the specification's sections 4.1, 4.2 and 4.4.  *)
(***************************************************************************)
EXTENDS Integers, Sequences, FiniteSets, TLC

(***************************************************************************)
(* Bounds of the model.                                                    *)
(***************************************************************************)
\* longest list of storage names given with --storage
MaxTargets == 2
\* most rows (users and filesets of all filesystems together) in the raw report
MaxRows == 2
\* most user rows of the one filesystem of a large report
MaxUsers == 40
\* most rows (of all filesystems together) in a report of detailed rows
MaxDetailedRows == 1

(***************************************************************************)
(* Program constants.                                                      *)
(***************************************************************************)
QUOTA_USERS_WARNING == 20
QUOTA_USERS_CRITICAL == 40
QUOTA_FILESETS_CRITICAL == 1

VARIABLES
    storage_opt,        \* opts.options.storage: the ordered storage names
    dry_run,            \* opts.options.dry_run
    now,                \* the evaluation time seen by the classifier
    pc,                 \* position of main()
    idx,                \* position of the for loop in storage_opt (1-based)
    filesystems,        \* gpfs.list_filesystems(...).keys()
    filesets,           \* gpfs.list_filesets()
    quota,              \* gpfs.list_quota(): filesystem -> kind -> rows
    quota_storage_map,  \* result of get_mmrepquota_maps for the current storage
    exceeding_filesets, \* dict storage_name -> sequence of (fileset, quota)
    exceeding_users,    \* dict storage_name -> sequence of (user, quota)
    stats,              \* dict key -> number
    trace,              \* every call main() made so far, in order
    deliveries,         \* notifications really delivered, in order
    monitor,            \* what was handed to the monitoring output, in order
    prev                \* the finished run before this one, if any

vars == <<storage_opt, dry_run, now, pc, idx, filesystems, filesets, quota,
          quota_storage_map, exceeding_filesets, exceeding_users, stats,
          trace, deliveries, monitor, prev>>

(***************************************************************************)
(* Configuration: VscStorage() as loaded from the storage configuration.   *)
(***************************************************************************)
VscStorage ==
    [s \in {"s1", "s2"} |->
        IF s = "s1" THEN [filesystem |-> "fsA", data_replication_factor |-> 2]
                    ELSE [filesystem |-> "fsB", data_replication_factor |-> 1]]

\* names the operator may type after --storage; "nosuch" is not configured
StorageNames == {"s1", "s2", "nosuch"}

Filesystems == {"fsA", "fsB"}

EvalTimes == {10}

NoGrace == {}

\* rows of the raw mmrepquota report (one entity's quota on one filesystem)
RawRecords ==
    { [blockUsage |-> 100, blockQuota |-> 150, blockLimit |-> 200, blockGrace |-> NoGrace,
       filesUsage |-> 1, filesQuota |-> 10, filesLimit |-> 20, filesGrace |-> NoGrace],
      [blockUsage |-> 200, blockQuota |-> 150, blockLimit |-> 200, blockGrace |-> NoGrace,
       filesUsage |-> 1, filesQuota |-> 10, filesLimit |-> 20, filesGrace |-> NoGrace] }

SeqsUpTo(S, n) == UNION {[1..k -> S] : k \in 0..n}

\* the rows of one kind: entity i of the report is row i
KindReports == SeqsUpTo(RawRecords, MaxRows)

\* the raw report of one filesystem
FsReports ==
    {r \in [USR : KindReports, FILESET : KindReports] :
        Len(r.USR) + Len(r.FILESET) <= MaxRows}

\* the number of rows in the reports of the filesystems fss
RECURSIVE RowCount(_, _)
RowCount(report, fss) ==
    IF fss = {} THEN 0
    ELSE LET fs == CHOOSE f \in fss : TRUE
         IN  Len(report[fs].USR) + Len(report[fs].FILESET) + RowCount(report, fss \ {fs})

\* what gpfs.list_quota() can return: a report for some of the filesystems
QuotaReports ==
    {report \in UNION {[fss -> FsReports] : fss \in SUBSET Filesystems} :
        RowCount(report, DOMAIN report) <= MaxRows}

EmptyDict == <<>>

Put(d, k, v) == [x \in (DOMAIN d) \cup {k} |-> IF x = k THEN v ELSE d[x]]

(***************************************************************************)
(* Events of the trace.                                                    *)
(***************************************************************************)
\* a call of main(): its name, the storage it was made for and the position
\* of the for loop, the exceeding items and the number handed to it, the
\* dry-run flag, whether it raised and, if so, what
Event(op, name, items, n, raised) ==
    [op |-> op, storage |-> name, pos |-> idx, items |-> items, n |-> n,
     dry |-> dry_run, raised |-> raised, err |-> ""]

Call(op) == Event(op, "", <<>>, 0, FALSE)

(***************************************************************************)
(* vsc.filesystem.quota.tools, after sections 4.1, 4.2 and 4.4.            *)
(***************************************************************************)
\* 4.1: one row of the raw report as a QuotaRecord; the block usage is scaled
\* by the replication factor, the file count is not
NormalizeRecord(row, replication_factor) ==
    [used |-> row.blockUsage * replication_factor,
     soft |-> row.blockQuota,
     hard |-> row.blockLimit,
     grace |-> row.blockGrace,
     files_used |-> row.filesUsage,
     files_soft |-> row.filesQuota,
     files_hard |-> row.filesLimit,
     files_grace |-> row.filesGrace]

NormalizeKind(rows, replication_factor) ==
    [i \in 1..Len(rows) |-> <<i, NormalizeRecord(rows[i], replication_factor)>>]

\* 4.1: the quota map of one filesystem, by entity kind, in the report's order
get_mmrepquota_maps(quota_fs, storage_name, filesystem, fsets, replication_factor) ==
    [USR |-> NormalizeKind(quota_fs.USR, replication_factor),
     FILESET |-> NormalizeKind(quota_fs.FILESET, replication_factor)]

\* 4.2: one dimension exceeds at the hard limit, or at the soft limit once
\* the grace period has expired
DimensionExceeds(used, soft, hard, grace, t) ==
    \/ used >= hard
    \/ /\ used >= soft
       /\ \E expiry \in grace : expiry <= t

Exceeds(q, t) ==
    \/ DimensionExceeds(q.used, q.soft, q.hard, q.grace, t)
    \/ DimensionExceeds(q.files_used, q.files_soft, q.files_hard, q.files_grace, t)

ExceedingItem(item) == Exceeds(item[2], now)

\* 4.2: the exceeding entities of one kind, in the report's order
process_fileset_quota(storage_name, filesystem, quota_map, dry) ==
    SelectSeq(quota_map, ExceedingItem)

process_user_quota(storage_name, filesystem, quota_map, dry) ==
    SelectSeq(quota_map, ExceedingItem)

\* 4.4: one delivery per exceeding entity, none in dry-run
Delivered(kind, storage_name, exceeding_items, dry) ==
    IF dry THEN <<>>
    ELSE [i \in 1..Len(exceeding_items) |->
            [kind |-> kind, storage |-> storage_name, entity |-> exceeding_items[i][1]]]

notify_exceeding_filesets(storage_name, filesystem, exceeding_items, dry) ==
    Delivered("FILESET", storage_name, exceeding_items, dry)

notify_exceeding_users(storage_name, filesystem, exceeding_items, dry) ==
    Delivered("USR", storage_name, exceeding_items, dry)

(***************************************************************************)
(* main()                                                                  *)
(***************************************************************************)
\* the bug of walking the storage names from the last to the first
storage_name_Reversed == storage_opt[Len(storage_opt) + 1 - idx]

\* the storage name of the current iteration of the for loop
storage_name == storage_opt[idx]

filesystem == VscStorage[storage_name].filesystem

replication_factor == VscStorage[storage_name].data_replication_factor

\* "%s_fileset" % (storage_name,) and the like
StatsKey(name, suffix) == name \o suffix

\* a second run sees the backend as the first run saw it
FirstRun == Len(prev) = 0

\* what a call can raise: an Exception whose message formats with "%s", an
\* Exception whose message is a non-ASCII unicode string, and what is not an
\* Exception (KeyboardInterrupt, SystemExit, an old-style class instance)
Raisable == {"Exception", "UnicodeMessage", "KeyboardInterrupt"}

\* except Exception: the clause does not catch what is not an Exception
Caught == {"KeyError", "Exception", "UnicodeMessage"}

\* err raised inside the try block: control goes to the handler if the
\* except clause catches it, and out of main() if not
RaiseErr(op, name, err) ==
    /\ pc' = IF err \in Caught THEN "except" ELSE "uncaught"
    /\ trace' = Append(trace, [Event(op, name, <<>>, 0, TRUE) EXCEPT !.err = err])

\* a call that raises
Raise(op, name) == \E err \in Raisable : RaiseErr(op, name, err)

\* the calls before the backend is queried: each returns or raises
Construct(at, next) ==
    /\ pc = at
    /\ \/ /\ pc' = next
          /\ trace' = Append(trace, Call(at))
       \/ Raise(at, "")
    /\ UNCHANGED <<storage_opt, dry_run, now, idx, filesystems, filesets, quota,
                   quota_storage_map, exceeding_filesets, exceeding_users, stats,
                   deliveries, monitor, prev>>

NewAccountpageClient == Construct("AccountpageClient", "map_uids_to_names")

MapUidsToNames == Construct("map_uids_to_names", "LdapQuery")

NewLdapQuery == Construct("LdapQuery", "GpfsOperations")

NewGpfsOperations == Construct("GpfsOperations", "VscStorage")

NewVscStorage == Construct("VscStorage", "target_filesystems")

\* the bug of resolving the storage names lazily, inside the loop only
TargetFilesystems_Lazy ==
    /\ pc = "target_filesystems"
    /\ pc' = "list_filesystems"
    /\ trace' = Append(trace, Call("target_filesystems"))
    /\ UNCHANGED <<storage_opt, dry_run, now, idx, filesystems, filesets, quota,
                   quota_storage_map, exceeding_filesets, exceeding_users, stats,
                   deliveries, monitor, prev>>

\* target_filesystems = [storage[s].filesystem for s in opts.options.storage]
TargetFilesystems ==
    /\ pc = "target_filesystems"
    /\ IF \A i \in 1..Len(storage_opt) : storage_opt[i] \in DOMAIN VscStorage
       THEN /\ pc' = "list_filesystems"
            /\ trace' = Append(trace, Call("target_filesystems"))
       ELSE RaiseErr("target_filesystems", "", "KeyError")
    /\ UNCHANGED <<storage_opt, dry_run, now, idx, filesystems, filesets, quota,
                   quota_storage_map, exceeding_filesets, exceeding_users, stats,
                   deliveries, monitor, prev>>

\* filesystems = gpfs.list_filesystems(target_filesystems).keys()
ListFilesystems ==
    /\ pc = "list_filesystems"
    /\ \/ /\ \E found \in (IF FirstRun THEN SUBSET Filesystems ELSE {prev[1].filesystems}) :
                filesystems' = found
          /\ pc' = "list_filesets"
          /\ trace' = Append(trace, Call("list_filesystems"))
       \/ /\ Raise("list_filesystems", "")
          /\ UNCHANGED filesystems
    /\ UNCHANGED <<storage_opt, dry_run, now, idx, filesets, quota,
                   quota_storage_map, exceeding_filesets, exceeding_users, stats,
                   deliveries, monitor, prev>>

\* filesets = gpfs.list_filesets()
ListFilesets ==
    /\ pc = "list_filesets"
    /\ \/ /\ filesets' = Filesystems
          /\ pc' = "list_quota"
          /\ trace' = Append(trace, Call("list_filesets"))
       \/ /\ Raise("list_filesets", "")
          /\ UNCHANGED filesets
    /\ UNCHANGED <<storage_opt, dry_run, now, idx, filesystems, quota,
                   quota_storage_map, exceeding_filesets, exceeding_users, stats,
                   deliveries, monitor, prev>>

\* quota = gpfs.list_quota(); the three dicts start empty
ListQuota ==
    /\ pc = "list_quota"
    /\ \/ /\ \E report \in (IF FirstRun THEN QuotaReports ELSE {prev[1].quota}) :
                quota' = report
          /\ exceeding_filesets' = EmptyDict
          /\ exceeding_users' = EmptyDict
          /\ stats' = EmptyDict
          /\ pc' = "for"
          /\ trace' = Append(trace, Call("list_quota"))
       \/ /\ Raise("list_quota", "")
          /\ UNCHANGED <<quota, exceeding_filesets, exceeding_users, stats>>
    /\ UNCHANGED <<storage_opt, dry_run, now, idx, filesystems, filesets,
                   quota_storage_map, deliveries, monitor, prev>>

\* the bug of looking the filesystem up in the quota report
NonExistentFilesystem_InQuota(fs) == fs \notin DOMAIN quota

\* if filesystem not in filesystems
NonExistentFilesystem(fs) == fs \notin filesystems

\* the bug of looking the filesystem up in the mounted filesystems again
NoQuotaDefined_InFilesystems(fs) == fs \notin filesystems

\* if filesystem not in quota.keys()
NoQuotaDefined(fs) == fs \notin DOMAIN quota

LoopVars == <<storage_opt, dry_run, now, filesystems, filesets, quota, prev>>

\* the for loop has run out of storage names
ForDone ==
    /\ pc = "for"
    /\ idx > Len(storage_opt)
    /\ pc' = "epilogue"
    /\ UNCHANGED <<idx, quota_storage_map, exceeding_filesets, exceeding_users,
                   stats, trace, deliveries, monitor>>
    /\ UNCHANGED LoopVars

\* the bug of leaving the loop (break) where the code goes on (continue)
SkipNonExistent_Break ==
    /\ pc = "for"
    /\ idx <= Len(storage_opt)
    /\ NonExistentFilesystem(filesystem)
    /\ trace' = Append(trace, Event("error_nonexistent_filesystem", storage_name, <<>>, 0, FALSE))
    /\ idx' = Len(storage_opt) + 1
    /\ UNCHANGED <<pc, quota_storage_map, exceeding_filesets, exceeding_users,
                   stats, deliveries, monitor>>
    /\ UNCHANGED LoopVars

\* logger.error("Non-existent filesystem ..."); continue
SkipNonExistent ==
    /\ pc = "for"
    /\ idx <= Len(storage_opt)
    /\ NonExistentFilesystem(filesystem)
    /\ trace' = Append(trace, Event("error_nonexistent_filesystem", storage_name, <<>>, 0, FALSE))
    /\ idx' = idx + 1
    /\ UNCHANGED <<pc, quota_storage_map, exceeding_filesets, exceeding_users,
                   stats, deliveries, monitor>>
    /\ UNCHANGED LoopVars

\* logger.error("No quota defined for storage_name ..."); continue
SkipNoQuota ==
    /\ pc = "for"
    /\ idx <= Len(storage_opt)
    /\ ~NonExistentFilesystem(filesystem)
    /\ NoQuotaDefined(filesystem)
    /\ trace' = Append(trace, Event("error_no_quota_defined", storage_name, <<>>, 0, FALSE))
    /\ idx' = idx + 1
    /\ UNCHANGED <<pc, quota_storage_map, exceeding_filesets, exceeding_users,
                   stats, deliveries, monitor>>
    /\ UNCHANGED LoopVars

\* the bug of asking the backend for the quota again for every storage
EnterStorage_Requery ==
    /\ pc = "for"
    /\ idx <= Len(storage_opt)
    /\ ~NonExistentFilesystem(filesystem)
    /\ ~NoQuotaDefined(filesystem)
    /\ \E report \in QuotaReports : quota' = report
    /\ trace' = Append(trace, Call("list_quota"))
    /\ pc' = "get_mmrepquota_maps"
    /\ UNCHANGED <<idx, quota_storage_map, exceeding_filesets, exceeding_users,
                   stats, deliveries, monitor>>
    /\ UNCHANGED <<storage_opt, dry_run, now, filesystems, filesets, prev>>

\* both checks passed: the storage is processed
EnterStorage ==
    /\ pc = "for"
    /\ idx <= Len(storage_opt)
    /\ ~NonExistentFilesystem(filesystem)
    /\ ~NoQuotaDefined(filesystem)
    /\ pc' = "get_mmrepquota_maps"
    /\ UNCHANGED <<idx, quota_storage_map, exceeding_filesets, exceeding_users,
                   stats, trace, deliveries, monitor>>
    /\ UNCHANGED LoopVars

\* the bug of leaving the replication factor out of the call
GetMmrepquotaMaps_NoFactor ==
    /\ pc = "get_mmrepquota_maps"
    /\ \/ /\ quota_storage_map' = get_mmrepquota_maps(quota[filesystem], storage_name,
                                        filesystem, filesets, 1)
          /\ trace' = Append(trace, Event("get_mmrepquota_maps", storage_name, <<>>, 1, FALSE))
          /\ pc' = "process_fileset_quota"
       \/ /\ Raise("get_mmrepquota_maps", storage_name)
          /\ UNCHANGED quota_storage_map
    /\ UNCHANGED <<idx, exceeding_filesets, exceeding_users, stats, deliveries, monitor>>
    /\ UNCHANGED LoopVars

\* the bug of normalising the report of another filesystem
GetMmrepquotaMaps_OtherReport ==
    /\ pc = "get_mmrepquota_maps"
    /\ \/ /\ quota_storage_map' =
                get_mmrepquota_maps(quota[CHOOSE f \in DOMAIN quota : f # filesystem],
                                    storage_name, filesystem, filesets, replication_factor)
          /\ trace' = Append(trace, Event("get_mmrepquota_maps", storage_name, <<>>,
                                          replication_factor, FALSE))
          /\ pc' = "process_fileset_quota"
       \/ /\ Raise("get_mmrepquota_maps", storage_name)
          /\ UNCHANGED quota_storage_map
    /\ UNCHANGED <<idx, exceeding_filesets, exceeding_users, stats, deliveries, monitor>>
    /\ UNCHANGED LoopVars

\* quota_storage_map = get_mmrepquota_maps(quota[filesystem], ...)
GetMmrepquotaMaps ==
    /\ pc = "get_mmrepquota_maps"
    /\ \/ /\ quota_storage_map' = get_mmrepquota_maps(quota[filesystem], storage_name,
                                        filesystem, filesets, replication_factor)
          /\ trace' = Append(trace, Event("get_mmrepquota_maps", storage_name, <<>>,
                                          replication_factor, FALSE))
          /\ pc' = "process_fileset_quota"
       \/ /\ Raise("get_mmrepquota_maps", storage_name)
          /\ UNCHANGED quota_storage_map
    /\ UNCHANGED <<idx, exceeding_filesets, exceeding_users, stats, deliveries, monitor>>
    /\ UNCHANGED LoopVars

\* exceeding_filesets[storage_name] = process_fileset_quota(...)
ProcessFilesetQuota ==
    /\ pc = "process_fileset_quota"
    /\ \/ /\ exceeding_filesets' = Put(exceeding_filesets, storage_name,
                process_fileset_quota(storage_name, filesystem,
                                      quota_storage_map.FILESET, dry_run))
          /\ trace' = Append(trace, Event("process_fileset_quota", storage_name,
                                          <<>>, 0, FALSE))
          /\ pc' = "process_user_quota"
       \/ /\ Raise("process_fileset_quota", storage_name)
          /\ UNCHANGED exceeding_filesets
    /\ UNCHANGED <<idx, quota_storage_map, exceeding_users, stats, deliveries, monitor>>
    /\ UNCHANGED LoopVars

\* the bug of dispatching right after the classification, the fileset
\* statistics left out
ProcessUserQuota_ThenNotify ==
    /\ pc = "process_user_quota"
    /\ \/ /\ exceeding_users' = Put(exceeding_users, storage_name,
                process_user_quota(storage_name, filesystem,
                                   quota_storage_map.USR, dry_run))
          /\ trace' = Append(trace, Event("process_user_quota", storage_name,
                                          <<>>, 0, FALSE))
          /\ pc' = "notify_exceeding_filesets"
       \/ /\ Raise("process_user_quota", storage_name)
          /\ UNCHANGED exceeding_users
    /\ UNCHANGED <<idx, quota_storage_map, exceeding_filesets, stats, deliveries, monitor>>
    /\ UNCHANGED LoopVars

\* the bug of classifying the fileset map where the user map is meant
ProcessUserQuota_FilesetMap ==
    /\ pc = "process_user_quota"
    /\ \/ /\ exceeding_users' = Put(exceeding_users, storage_name,
                process_user_quota(storage_name, filesystem,
                                   quota_storage_map.FILESET, dry_run))
          /\ trace' = Append(trace, Event("process_user_quota", storage_name,
                                          <<>>, 0, FALSE))
          /\ pc' = "fileset_stats"
       \/ /\ Raise("process_user_quota", storage_name)
          /\ UNCHANGED exceeding_users
    /\ UNCHANGED <<idx, quota_storage_map, exceeding_filesets, stats, deliveries, monitor>>
    /\ UNCHANGED LoopVars

\* exceeding_users[storage_name] = process_user_quota(...)
ProcessUserQuota ==
    /\ pc = "process_user_quota"
    /\ \/ /\ exceeding_users' = Put(exceeding_users, storage_name,
                process_user_quota(storage_name, filesystem,
                                   quota_storage_map.USR, dry_run))
          /\ trace' = Append(trace, Event("process_user_quota", storage_name,
                                          <<>>, 0, FALSE))
          /\ pc' = "fileset_stats"
       \/ /\ Raise("process_user_quota", storage_name)
          /\ UNCHANGED exceeding_users
    /\ UNCHANGED <<idx, quota_storage_map, exceeding_filesets, stats, deliveries, monitor>>
    /\ UNCHANGED LoopVars

\* the bug of testing the exceeding users where the filesets are meant
FilesetStat_FromUsers(items) == IF Len(exceeding_users[storage_name]) > 0 THEN 1 ELSE 0

\* the value stored under "%s_fileset"
FilesetStat(items) == IF Len(items) > 0 THEN 1 ELSE 0

\* the %d of "found %d filesets that are exceeding their quota"
FilesetLogCount == Cardinality(DOMAIN exceeding_filesets)

\* stats["%s_fileset_critical"], stats["%s_fileset"] and the log lines
FilesetStats ==
    /\ pc = "fileset_stats"
    /\ stats' = Put(Put(stats, StatsKey(storage_name, "_fileset_critical"),
                        QUOTA_FILESETS_CRITICAL),
                    StatsKey(storage_name, "_fileset"),
                    FilesetStat(exceeding_filesets[storage_name]))
    /\ trace' = Append(trace,
            IF Len(exceeding_filesets[storage_name]) > 0
            THEN Event("warning_filesets", storage_name,
                       exceeding_filesets[storage_name], FilesetLogCount, FALSE)
            ELSE Event("debug_no_filesets", storage_name, <<>>, 0, FALSE))
    /\ pc' = "notify_exceeding_filesets"
    /\ UNCHANGED <<idx, quota_storage_map, exceeding_filesets, exceeding_users,
                   deliveries, monitor>>
    /\ UNCHANGED LoopVars

\* a dispatcher that raises has delivered to some of the items before
Dispatch(op, name, items, sent, next, nextidx) ==
    \/ /\ deliveries' = deliveries \o sent
       /\ trace' = Append(trace, Event(op, name, items, 0, FALSE))
       /\ pc' = next
       /\ idx' = nextidx
    \/ /\ \E k \in 0..Len(sent) : deliveries' = deliveries \o SubSeq(sent, 1, k)
       /\ Raise(op, name)
       /\ UNCHANGED idx

\* notify_exceeding_filesets(..., exceeding_items=exceeding_filesets[storage_name], ...)
NotifyExceedingFilesets ==
    /\ pc = "notify_exceeding_filesets"
    /\ Dispatch("notify_exceeding_filesets", storage_name,
                exceeding_filesets[storage_name],
                notify_exceeding_filesets(storage_name, filesystem,
                                          exceeding_filesets[storage_name], dry_run),
                "user_stats", idx)
    /\ UNCHANGED <<quota_storage_map, exceeding_filesets, exceeding_users, stats, monitor>>
    /\ UNCHANGED LoopVars

\* the bug of storing a flag, as the fileset branch does
UserStat_Flag(items) == IF Len(items) > 0 THEN 1 ELSE 0

\* the value stored under "%s_users"
UserStat(items) == IF Len(items) > 0 THEN Len(items) ELSE 0

\* stats["%s_users_warning"], stats["%s_users_critical"], stats["%s_users"]
UserStats ==
    /\ pc = "user_stats"
    /\ stats' = Put(Put(Put(stats, StatsKey(storage_name, "_users_warning"),
                            QUOTA_USERS_WARNING),
                        StatsKey(storage_name, "_users_critical"),
                        QUOTA_USERS_CRITICAL),
                    StatsKey(storage_name, "_users"),
                    UserStat(exceeding_users[storage_name]))
    /\ trace' = Append(trace,
            IF Len(exceeding_users[storage_name]) > 0
            THEN Event("warning_users", storage_name, exceeding_users[storage_name],
                       Len(exceeding_users[storage_name]), FALSE)
            ELSE Event("debug_no_users", storage_name, <<>>, 0, FALSE))
    /\ pc' = "notify_exceeding_users"
    /\ UNCHANGED <<idx, quota_storage_map, exceeding_filesets, exceeding_users,
                   deliveries, monitor>>
    /\ UNCHANGED LoopVars

\* the bug of not calling the dispatcher at all in dry-run
NotifyExceedingUsers_SkipDry ==
    /\ pc = "notify_exceeding_users"
    /\ IF dry_run
       THEN /\ pc' = "for"
            /\ idx' = idx + 1
            /\ UNCHANGED <<trace, deliveries>>
       ELSE Dispatch("notify_exceeding_users", storage_name,
                     exceeding_users[storage_name],
                     notify_exceeding_users(storage_name, filesystem,
                                            exceeding_users[storage_name], dry_run),
                     "for", idx + 1)
    /\ UNCHANGED <<quota_storage_map, exceeding_filesets, exceeding_users, stats, monitor>>
    /\ UNCHANGED LoopVars

\* notify_exceeding_users(...); the loop goes on with the next storage name
NotifyExceedingUsers ==
    /\ pc = "notify_exceeding_users"
    /\ Dispatch("notify_exceeding_users", storage_name,
                exceeding_users[storage_name],
                notify_exceeding_users(storage_name, filesystem,
                                       exceeding_users[storage_name], dry_run),
                "for", idx + 1)
    /\ UNCHANGED <<quota_storage_map, exceeding_filesets, exceeding_users, stats, monitor>>
    /\ UNCHANGED LoopVars

Report(call, message, handed) == [call |-> call, message |-> message, stats |-> handed]

\* the bug of a handler that takes back what was delivered
Except_Rollback ==
    /\ pc = "except"
    /\ IF trace[Len(trace)].err = "UnicodeMessage"
       THEN /\ pc' = "uncaught"
            /\ UNCHANGED monitor
       ELSE /\ monitor' = Append(monitor, Report("critical",
                                 "Script failed in a horrible way", EmptyDict))
            /\ pc' = "sys_exit"
    /\ deliveries' = <<>>
    /\ UNCHANGED <<idx, quota_storage_map, exceeding_filesets, exceeding_users,
                   stats, trace>>
    /\ UNCHANGED LoopVars

\* except Exception, err: logger.exception("... %s" % (err)) raises
\* UnicodeEncodeError on a non-ASCII unicode message, which leaves main()
\* before the report; otherwise opts.critical("Script failed in a horrible
\* way") and sys.exit(...)
Except ==
    /\ pc = "except"
    /\ IF trace[Len(trace)].err = "UnicodeMessage"
       THEN /\ pc' = "uncaught"
            /\ UNCHANGED monitor
       ELSE /\ monitor' = Append(monitor, Report("critical",
                                 "Script failed in a horrible way", EmptyDict))
            /\ pc' = "sys_exit"
    /\ UNCHANGED <<idx, quota_storage_map, exceeding_filesets, exceeding_users,
                   stats, trace, deliveries>>
    /\ UNCHANGED LoopVars

\* the bug of calling opts.epilogue without the stats
Epilogue_NoStats ==
    /\ pc = "epilogue"
    /\ monitor' = Append(monitor, Report("epilogue", "quota check completed", EmptyDict))
    /\ pc' = "done"
    /\ UNCHANGED <<idx, quota_storage_map, exceeding_filesets, exceeding_users,
                   stats, trace, deliveries>>
    /\ UNCHANGED LoopVars

\* opts.epilogue("quota check completed", stats)
Epilogue ==
    /\ pc = "epilogue"
    /\ monitor' = Append(monitor, Report("epilogue", "quota check completed", stats))
    /\ pc' = "done"
    /\ UNCHANGED <<idx, quota_storage_map, exceeding_filesets, exceeding_users,
                   stats, trace, deliveries>>
    /\ UNCHANGED LoopVars

Init ==
    /\ storage_opt \in SeqsUpTo(StorageNames, MaxTargets)
    /\ dry_run \in BOOLEAN
    /\ now \in EvalTimes
    /\ pc = "AccountpageClient"
    /\ idx = 1
    /\ filesystems = {}
    /\ filesets = {}
    /\ quota = EmptyDict
    /\ quota_storage_map = EmptyDict
    /\ exceeding_filesets = EmptyDict
    /\ exceeding_users = EmptyDict
    /\ stats = EmptyDict
    /\ trace = <<>>
    /\ deliveries = <<>>
    /\ monitor = <<>>
    /\ prev = <<>>

\* the script is started again on the same configuration and the same backend
\* snapshot, with the other value of --dry-run
Rerun ==
    /\ pc = "done"
    /\ FirstRun
    /\ prev' = <<[dry_run |-> dry_run, filesystems |-> filesystems, quota |-> quota,
                  exceeding_filesets |-> exceeding_filesets,
                  exceeding_users |-> exceeding_users,
                  trace |-> trace, deliveries |-> deliveries, monitor |-> monitor]>>
    /\ dry_run' = ~dry_run
    /\ pc' = "AccountpageClient"
    /\ idx' = 1
    /\ filesystems' = {}
    /\ filesets' = {}
    /\ quota' = EmptyDict
    /\ quota_storage_map' = EmptyDict
    /\ exceeding_filesets' = EmptyDict
    /\ exceeding_users' = EmptyDict
    /\ stats' = EmptyDict
    /\ trace' = <<>>
    /\ deliveries' = <<>>
    /\ monitor' = <<>>
    /\ UNCHANGED <<storage_opt, now>>

Next ==
    \/ NewAccountpageClient
    \/ MapUidsToNames
    \/ NewLdapQuery
    \/ NewGpfsOperations
    \/ NewVscStorage
    \/ TargetFilesystems
    \/ ListFilesystems
    \/ ListFilesets
    \/ ListQuota
    \/ ForDone
    \/ SkipNonExistent
    \/ SkipNoQuota
    \/ EnterStorage
    \/ GetMmrepquotaMaps
    \/ ProcessFilesetQuota
    \/ ProcessUserQuota
    \/ FilesetStats
    \/ NotifyExceedingFilesets
    \/ UserStats
    \/ NotifyExceedingUsers
    \/ Except
    \/ Epilogue

Spec == Init /\ [][Next]_vars

\* main() is one sequential process: it keeps taking its next step until it
\* returns or exits
SpecRun == Spec /\ WF_vars(Next)

\* two runs in a row, the second with the dry-run flag flipped
SpecRerun == Init /\ [][Next \/ Rerun]_vars

\* a row of the raw report at its block hard limit
HardBreachRow == CHOOSE r \in RawRecords : r.blockUsage >= r.blockLimit

\* a large report: one filesystem with up to MaxUsers user rows and up to
\* MaxRows fileset rows, every one of them at its hard limit
LargeReports ==
    {[USR |-> [i \in 1..nu |-> HardBreachRow], FILESET |-> [i \in 1..nf |-> HardBreachRow]] :
        nu \in 0..MaxUsers, nf \in 0..MaxRows}

\* main() with one storage name and a large report, when the loop body has
\* normalized and classified the storage (line 135)
InitClassified ==
    /\ \E s \in DOMAIN VscStorage : storage_opt = <<s>>
    /\ dry_run \in BOOLEAN
    /\ now \in EvalTimes
    /\ pc = "fileset_stats"
    /\ idx = 1
    /\ filesystems = {filesystem}
    /\ filesets = Filesystems
    /\ \E report \in LargeReports : quota = [fs \in {filesystem} |-> report]
    /\ quota_storage_map = get_mmrepquota_maps(quota[filesystem], storage_name,
                                               filesystem, filesets, replication_factor)
    /\ exceeding_filesets = [s \in {storage_name} |->
            process_fileset_quota(storage_name, filesystem, quota_storage_map.FILESET, dry_run)]
    /\ exceeding_users = [s \in {storage_name} |->
            process_user_quota(storage_name, filesystem, quota_storage_map.USR, dry_run)]
    /\ stats = EmptyDict
    /\ trace = <<Call("AccountpageClient"), Call("map_uids_to_names"), Call("LdapQuery"),
                 Call("GpfsOperations"), Call("VscStorage"), Call("target_filesystems"),
                 Call("list_filesystems"), Call("list_filesets"), Call("list_quota"),
                 Event("get_mmrepquota_maps", storage_name, <<>>, replication_factor, FALSE),
                 Event("process_fileset_quota", storage_name, <<>>, 0, FALSE),
                 Event("process_user_quota", storage_name, <<>>, 0, FALSE)>>
    /\ deliveries = <<>>
    /\ monitor = <<>>
    /\ prev = <<>>

\* the rest of main() from there
NextClassified ==
    \/ FilesetStats
    \/ NotifyExceedingFilesets
    \/ UserStats
    \/ NotifyExceedingUsers
    \/ ForDone
    \/ Except
    \/ Epilogue

SpecLargeReport == InitClassified /\ [][NextClassified]_vars

\* evaluation times before, at and after the grace expiry of the detailed rows
DetailedEvalTimes == {9, 10, 11}

\* rows below the soft limit, between the limits and at the hard limit once
\* scaled by 2 (blocks), resp. as they are (files), with and without a grace
\* expiry
DetailedRecords ==
    [blockUsage : {60, 80, 100}, blockQuota : {150}, blockLimit : {200},
     blockGrace : {NoGrace, {10}},
     filesUsage : {1, 10, 20}, filesQuota : {10}, filesLimit : {20},
     filesGrace : {NoGrace, {10}}]

\* reports for all filesystems with detailed rows of one kind for one of them
DetailedReports ==
    {[f \in Filesystems |->
         [USR |-> IF f = fs /\ kind = "USR" THEN rows ELSE <<>>,
          FILESET |-> IF f = fs /\ kind = "FILESET" THEN rows ELSE <<>>]] :
        fs \in Filesystems, kind \in {"USR", "FILESET"},
        rows \in SeqsUpTo(DetailedRecords, MaxDetailedRows)}

\* main() with one storage name, when the backend has been queried (line 97)
\* and has returned a report of detailed rows
InitDetailed ==
    /\ \E s \in DOMAIN VscStorage : storage_opt = <<s>>
    /\ dry_run \in BOOLEAN
    /\ now \in DetailedEvalTimes
    /\ pc = "for"
    /\ idx = 1
    /\ filesystems = Filesystems
    /\ filesets = Filesystems
    /\ quota \in DetailedReports
    /\ quota_storage_map = EmptyDict
    /\ exceeding_filesets = EmptyDict
    /\ exceeding_users = EmptyDict
    /\ stats = EmptyDict
    /\ trace = <<Call("AccountpageClient"), Call("map_uids_to_names"), Call("LdapQuery"),
                 Call("GpfsOperations"), Call("VscStorage"), Call("target_filesystems"),
                 Call("list_filesystems"), Call("list_filesets"), Call("list_quota")>>
    /\ deliveries = <<>>
    /\ monitor = <<>>
    /\ prev = <<>>

\* the loop and the end of main() from there
NextDetailed ==
    \/ EnterStorage
    \/ GetMmrepquotaMaps
    \/ ProcessFilesetQuota
    \/ ProcessUserQuota
    \/ NextClassified

SpecDetailedReport == InitDetailed /\ [][NextDetailed]_vars

(***************************************************************************)
(* Vocabulary of the properties.                                           *)
(***************************************************************************)
ConfiguredTargets == {i \in 1..Len(storage_opt) : storage_opt[i] \in DOMAIN VscStorage}

FsOf(i) == VscStorage[storage_opt[i]].filesystem

ProcessingOps == {"get_mmrepquota_maps", "process_fileset_quota", "process_user_quota",
                  "notify_exceeding_filesets", "notify_exceeding_users"}

StatsOps == {"warning_filesets", "debug_no_filesets", "warning_users", "debug_no_users"}

BackendOps == {"list_filesystems", "list_filesets", "list_quota"}

InTargetPcs == {"get_mmrepquota_maps", "process_fileset_quota", "process_user_quota",
                "fileset_stats", "notify_exceeding_filesets", "user_stats",
                "notify_exceeding_users"}

StatSuffixes == {"_fileset_critical", "_fileset", "_users_warning", "_users_critical",
                 "_users"}

KeysOf(name) == {StatsKey(name, suffix) : suffix \in StatSuffixes}

\* the call op was made and returned
Returned(op) == \E k \in 1..Len(trace) : trace[k].op = op /\ ~trace[k].raised

\* the call op was made for the storage name and returned
ReturnedFor(op, name) ==
    \E k \in 1..Len(trace) : trace[k].op = op /\ trace[k].storage = name /\ ~trace[k].raised

\* some step of the loop body ran (or started) at position i of the storage list
TouchedAt(i) ==
    \/ \E k \in 1..Len(trace) : trace[k].pos = i /\ trace[k].op \in ProcessingOps \cup StatsOps
    \/ idx = i /\ pc \in InTargetPcs

\* every step of the loop body ran to its end at position i
CompletedAt(i) ==
    /\ \A op \in ProcessingOps :
          \E k \in 1..Len(trace) : trace[k].pos = i /\ trace[k].op = op /\ ~trace[k].raised
    /\ \E k \in 1..Len(trace) : trace[k].pos = i /\ trace[k].op \in {"warning_filesets", "debug_no_filesets"}
    /\ \E k \in 1..Len(trace) : trace[k].pos = i /\ trace[k].op \in {"warning_users", "debug_no_users"}

Raised == \E k \in 1..Len(trace) : trace[k].raised

SkippedUnknown(i) == FsOf(i) \notin filesystems

SkippedNoQuota(i) == FsOf(i) \in filesystems /\ FsOf(i) \notin DOMAIN quota

(***************************************************************************)
(* C1: a configured storage whose filesystem is not among the filesystems  *)
(* the backend returned is skipped: no normalizer, classifier or           *)
(* dispatcher call is made for it, no step of the loop body runs at its    *)
(* position, and stats never holds a key of that storage.                  *)
(***************************************************************************)
C1_UnknownFilesystemSkipped ==
    Returned("list_filesystems") =>
        \A i \in ConfiguredTargets :
            SkippedUnknown(i) =>
                /\ ~TouchedAt(i)
                /\ \A op \in ProcessingOps :
                      ~\E k \in 1..Len(trace) : trace[k].op = op /\ trace[k].storage = storage_opt[i]
                /\ KeysOf(storage_opt[i]) \cap DOMAIN stats = {}
                /\ \A m \in 1..Len(monitor) : KeysOf(storage_opt[i]) \cap DOMAIN monitor[m].stats = {}

\* a run that ended after skipping a storage whose filesystem has quota data
\* but is not known to the backend
C1_Witness ==
    /\ pc = "done"
    /\ \E i \in ConfiguredTargets :
          /\ SkippedUnknown(i)
          /\ FsOf(i) \in DOMAIN quota
          /\ \E k \in 1..Len(trace) :
                trace[k].op = "error_nonexistent_filesystem" /\ trace[k].pos = i

(***************************************************************************)
(* C2: a configured storage whose filesystem is known to the backend but   *)
(* has no entry in the raw quota report is skipped: no normalizer,         *)
(* classifier or dispatcher call is made for it, neither exceeding dict    *)
(* nor stats gets an entry for it, and the skip does not end the cycle.    *)
(***************************************************************************)
C2_NoQuotaSkipped ==
    /\ Returned("list_quota") =>
          \A i \in ConfiguredTargets :
              SkippedNoQuota(i) =>
                  /\ ~TouchedAt(i)
                  /\ \A op \in ProcessingOps :
                        ~\E k \in 1..Len(trace) : trace[k].op = op /\ trace[k].storage = storage_opt[i]
                  /\ storage_opt[i] \notin DOMAIN exceeding_filesets
                  /\ storage_opt[i] \notin DOMAIN exceeding_users
                  /\ KeysOf(storage_opt[i]) \cap DOMAIN stats = {}
    /\ (Len(trace) > 0 /\ trace[Len(trace)].op = "error_no_quota_defined") =>
          /\ pc \notin {"except", "sys_exit", "uncaught"}
          /\ idx = trace[Len(trace)].pos + 1

\* a run that ended after skipping a storage without quota data
C2_Witness ==
    /\ pc = "done"
    /\ \E i \in ConfiguredTargets :
          /\ SkippedNoQuota(i)
          /\ \E k \in 1..Len(trace) :
                trace[k].op = "error_no_quota_defined" /\ trace[k].pos = i

(***************************************************************************)
(* C3: when the run ends without an exception, every storage that was not  *)
(* skipped has gone through every step of the loop body, whatever was      *)
(* skipped before it, and the stats handed to opts.epilogue hold all five  *)
(* keys of every storage that was not skipped and no other key.            *)
(***************************************************************************)
C3_SkipsDoNotStopTheLoop ==
    pc = "done" =>
        /\ ConfiguredTargets = 1..Len(storage_opt)
        /\ \A i \in 1..Len(storage_opt) :
              IF SkippedUnknown(i) \/ SkippedNoQuota(i)
              THEN ~TouchedAt(i)
              ELSE CompletedAt(i)
        /\ Len(monitor) = 1
        /\ monitor[1].call = "epilogue"
        /\ DOMAIN monitor[1].stats =
              UNION {KeysOf(storage_opt[i]) :
                        i \in {j \in 1..Len(storage_opt) :
                                  ~(SkippedUnknown(j) \/ SkippedNoQuota(j))}}

\* the first storage was skipped and the second one processed
C3_Witness ==
    /\ pc = "done"
    /\ Len(storage_opt) = 2
    /\ SkippedUnknown(1)
    /\ CompletedAt(2)
    /\ DOMAIN monitor[1].stats = KeysOf(storage_opt[2])

(***************************************************************************)
(* C4, as claimed: once a call inside the try block has raised, nothing    *)
(* else is called: the raising call is the last event, opts.epilogue is    *)
(* never called, and the run ends with opts.critical having reported       *)
(* "Script failed in a horrible way". The handler catches Exception only   *)
(* and formats the exception before it reports, so the last part does not  *)
(* hold.                                                                   *)
(***************************************************************************)
C4_FailureAbortsCycle ==
    /\ \A k \in 1..Len(trace) : trace[k].raised => k = Len(trace)
    /\ Raised =>
          /\ pc \in {"except", "sys_exit", "uncaught"}
          /\ \A m \in 1..Len(monitor) : monitor[m].call # "epilogue"
          /\ pc \in {"sys_exit", "uncaught"} =>
                monitor = <<Report("critical", "Script failed in a horrible way", EmptyDict)>>
          /\ pc = "except" => monitor = <<>>
    /\ ~Raised => /\ pc \notin {"except", "sys_exit", "uncaught"}
                  /\ \A m \in 1..Len(monitor) : monitor[m].call # "critical"

FilesetKeys(name) == {StatsKey(name, "_fileset_critical"), StatsKey(name, "_fileset")}

UserKeys(name) == {StatsKey(name, "_users_warning"), StatsKey(name, "_users_critical"),
                   StatsKey(name, "_users")}

\* the call op was made for the storage name, whether it returned or raised
CalledFor(op, name) ==
    \E k \in 1..Len(trace) : trace[k].op = op /\ trace[k].storage = name

(***************************************************************************)
(* C5, as claimed: no stats key of a storage is recorded before both       *)
(* notification dispatches for that storage have completed.                *)
(***************************************************************************)
C5_StatsOnlyAfterDispatch ==
    \A name \in DOMAIN VscStorage :
        KeysOf(name) \cap DOMAIN stats # {} =>
            /\ ReturnedFor("notify_exceeding_filesets", name)
            /\ ReturnedFor("notify_exceeding_users", name)

(***************************************************************************)
(* C5, amended: per storage the order is normalize, classify, fileset      *)
(* stats, fileset dispatch, user stats, user dispatch.  The fileset keys   *)
(* are in stats before the fileset dispatcher is called, the user keys     *)
(* only after the fileset dispatcher has returned and before the user      *)
(* dispatcher is called; and stats is handed to opts.epilogue only after   *)
(* both dispatchers have returned for every storage it has keys of.        *)
(***************************************************************************)
C5_DispatchInterleavedWithStats ==
    /\ \A name \in DOMAIN VscStorage :
          /\ FilesetKeys(name) \cap DOMAIN stats # {} =>
                /\ FilesetKeys(name) \subseteq DOMAIN stats
                /\ ReturnedFor("get_mmrepquota_maps", name)
                /\ ReturnedFor("process_fileset_quota", name)
                /\ ReturnedFor("process_user_quota", name)
          /\ CalledFor("notify_exceeding_filesets", name) =>
                FilesetKeys(name) \subseteq DOMAIN stats
          /\ UserKeys(name) \cap DOMAIN stats # {} =>
                /\ UserKeys(name) \subseteq DOMAIN stats
                /\ ReturnedFor("notify_exceeding_filesets", name)
          /\ CalledFor("notify_exceeding_users", name) =>
                UserKeys(name) \subseteq DOMAIN stats
    /\ \A m \in 1..Len(monitor) :
          monitor[m].call = "epilogue" =>
              \A name \in DOMAIN VscStorage :
                  KeysOf(name) \cap DOMAIN monitor[m].stats # {} =>
                      /\ ReturnedFor("notify_exceeding_filesets", name)
                      /\ ReturnedFor("notify_exceeding_users", name)

\* all five keys of a storage are recorded while its user dispatch is pending
C5_Witness ==
    /\ pc = "notify_exceeding_users"
    /\ KeysOf(storage_name) \subseteq DOMAIN stats
    /\ Len(exceeding_users[storage_name]) > 0
    /\ ~CalledFor("notify_exceeding_users", storage_name)

(***************************************************************************)
(* C6: with a storage name that the storage configuration does not know,   *)
(* the lookup on line 85 raises before the backend is queried: no backend  *)
(* call, no normalizer, classifier or dispatcher call and no stats write   *)
(* ever happens, also for known names earlier in the list, and the only    *)
(* report made is the critical one.                                        *)
(***************************************************************************)
C6_UnknownNameStopsBeforeProcessing ==
    ConfiguredTargets # 1..Len(storage_opt) =>
        /\ \A k \in 1..Len(trace) : trace[k].op \notin BackendOps \cup ProcessingOps \cup StatsOps
        /\ pc \in {"AccountpageClient", "map_uids_to_names", "LdapQuery", "GpfsOperations",
                   "VscStorage", "target_filesystems", "except", "sys_exit", "uncaught"}
        /\ (Len(trace) > 0 /\ trace[Len(trace)].op = "target_filesystems") =>
              /\ trace[Len(trace)].raised
              /\ trace[Len(trace)].err = "KeyError"
              /\ pc \in {"except", "sys_exit"}
              /\ pc = "sys_exit" =>
                    monitor = <<Report("critical", "Script failed in a horrible way",
                                       EmptyDict)>>
        /\ filesystems = {}
        /\ quota = EmptyDict
        /\ exceeding_filesets = EmptyDict
        /\ exceeding_users = EmptyDict
        /\ stats = EmptyDict
        /\ deliveries = <<>>
        /\ \A m \in 1..Len(monitor) : monitor[m].call = "critical"
        /\ pc = "sys_exit" => Len(monitor) = 1

\* a known name before the unknown one: the lookup raised and the run ended
C6_Witness ==
    /\ storage_opt = <<"s1", "nosuch">>
    /\ pc = "sys_exit"
    /\ trace[Len(trace)].op = "target_filesystems"
    /\ trace[Len(trace)].raised
    /\ monitor = <<Report("critical", "Script failed in a horrible way", EmptyDict)>>

IsDispatch(e) == e.op \in {"notify_exceeding_filesets", "notify_exceeding_users"}

\* the dispatcher calls of a run: which dispatcher, for which storage, with
\* which exceeding items
Dispatches(t) ==
    LET calls == SelectSeq(t, IsDispatch)
    IN  [k \in 1..Len(calls) |-> <<calls[k].op, calls[k].storage, calls[k].items, calls[k].raised>>]

RECURSIVE ItemCount(_)
ItemCount(calls) ==
    IF calls = <<>> THEN 0 ELSE Len(Head(calls)[3]) + ItemCount(Tail(calls))

(***************************************************************************)
(* C7: of two finished runs on the same configuration and the same backend *)
(* snapshot that differ in the dry-run flag only, the exceeding filesets   *)
(* and users per storage, the stats handed to opts.epilogue and the        *)
(* dispatcher calls (dispatcher, storage, exceeding items) are the same;   *)
(* the dry run delivers nothing and the live run one notification per      *)
(* exceeding item.                                                         *)
(***************************************************************************)
C7_DryRunEquivalence ==
    (~FirstRun /\ pc = "done") =>
        /\ dry_run = ~prev[1].dry_run
        /\ filesystems = prev[1].filesystems
        /\ quota = prev[1].quota
        /\ exceeding_filesets = prev[1].exceeding_filesets
        /\ exceeding_users = prev[1].exceeding_users
        /\ monitor = prev[1].monitor
        /\ monitor[1].call = "epilogue"
        /\ Dispatches(trace) = Dispatches(prev[1].trace)
        /\ Len(deliveries) = (IF dry_run THEN 0 ELSE ItemCount(Dispatches(trace)))
        /\ Len(prev[1].deliveries) =
              (IF prev[1].dry_run THEN 0 ELSE ItemCount(Dispatches(prev[1].trace)))

\* a live run with two deliveries, followed by a finished dry run
C7_Witness ==
    /\ ~FirstRun
    /\ pc = "done"
    /\ dry_run
    /\ Len(prev[1].deliveries) = 2
    /\ deliveries = <<>>
    /\ Len(Dispatches(trace)) > 0

(***************************************************************************)
(* C8, as claimed: the number stored under "<storage>_fileset" is the      *)
(* number of exceeding filesets the classifier returned for the storage.   *)
(***************************************************************************)
C8_FilesetCounterIsCount ==
    \A name \in DOMAIN VscStorage :
        StatsKey(name, "_fileset") \in DOMAIN stats =>
            stats[StatsKey(name, "_fileset")] = Len(exceeding_filesets[name])

(***************************************************************************)
(* C9: the number stored under "<storage>_users" is the number of          *)
(* exceeding users the classifier returned for the storage (0 for none),   *)
(* and it is stored together with the warning threshold 20 and the         *)
(* critical threshold 40 of that storage.                                  *)
(***************************************************************************)
C9_UserCounterIsCount ==
    \A name \in DOMAIN VscStorage :
        UserKeys(name) \cap DOMAIN stats # {} =>
            /\ UserKeys(name) \subseteq DOMAIN stats
            /\ name \in DOMAIN exceeding_users
            /\ stats[StatsKey(name, "_users")] = Len(exceeding_users[name])
            /\ stats[StatsKey(name, "_users_warning")] = 20
            /\ stats[StatsKey(name, "_users_critical")] = 40

\* two exceeding users counted for a storage
C9_Witness ==
    \E name \in DOMAIN VscStorage :
        /\ StatsKey(name, "_users") \in DOMAIN stats
        /\ stats[StatsKey(name, "_users")] = 2
        /\ Len(exceeding_users[name]) = 2

(***************************************************************************)
(* C10: the number stored under "<storage>_fileset" reaches the number     *)
(* stored under "<storage>_fileset_critical", which is 1, exactly when the *)
(* storage has an exceeding fileset; both entries are determined by the    *)
(* exceeding filesets alone, whatever the exceeding users are.             *)
(***************************************************************************)
C10_FilesetCriticalIffAnyExceeding ==
    \A name \in DOMAIN VscStorage :
        FilesetKeys(name) \cap DOMAIN stats # {} =>
            /\ FilesetKeys(name) \subseteq DOMAIN stats
            /\ stats[StatsKey(name, "_fileset_critical")] = 1
            /\ (stats[StatsKey(name, "_fileset")] >= stats[StatsKey(name, "_fileset_critical")])
                  <=> (Len(exceeding_filesets[name]) >= 1)
            /\ stats[StatsKey(name, "_fileset")] \in {0, 1}

\* no exceeding fileset and one exceeding user: the fileset entry stays at 0
C10_Witness ==
    \E name \in DOMAIN VscStorage :
        /\ StatsKey(name, "_fileset") \in DOMAIN stats
        /\ stats[StatsKey(name, "_fileset")] = 0
        /\ Len(exceeding_filesets[name]) = 0
        /\ Len(exceeding_users[name]) = 1

(***************************************************************************)
(* The monitoring output, after sections 4.2 and 6: the severity that the  *)
(* counters and thresholds of a stats mapping amount to.                   *)
(***************************************************************************)
\* 0 is ok, 1 is warning, 2 is critical
UserRank(st, name) ==
    IF StatsKey(name, "_users") \notin DOMAIN st THEN 0
    ELSE IF st[StatsKey(name, "_users")] >= st[StatsKey(name, "_users_critical")] THEN 2
    ELSE IF st[StatsKey(name, "_users")] >= st[StatsKey(name, "_users_warning")] THEN 1
    ELSE 0

FilesetRank(st, name) ==
    IF StatsKey(name, "_fileset") \notin DOMAIN st THEN 0
    ELSE IF st[StatsKey(name, "_fileset")] >= st[StatsKey(name, "_fileset_critical")] THEN 2
    ELSE 0

Worst(ranks) == IF ranks = {} THEN 0 ELSE CHOOSE r \in ranks : \A q \in ranks : q <= r

Severity(st) ==
    Worst({UserRank(st, name) : name \in DOMAIN VscStorage}
          \cup {FilesetRank(st, name) : name \in DOMAIN VscStorage})

\* the severity by the aggregation rules, from what the classifiers returned
CountRank(name) ==
    IF name \notin DOMAIN exceeding_users \/ name \notin DOMAIN exceeding_filesets THEN 0
    ELSE IF Len(exceeding_filesets[name]) >= 1 \/ Len(exceeding_users[name]) >= 40 THEN 2
    ELSE IF Len(exceeding_users[name]) >= 20 THEN 1
    ELSE 0

(***************************************************************************)
(* C11: a run that ends without an exception hands the stats to            *)
(* opts.epilogue, and the severity these stats amount to is the one of     *)
(* the aggregation rules: critical with an exceeding fileset or 40 or more *)
(* exceeding users on a storage, warning with 20 or more, else ok; so      *)
(* fewer than 20 exceeding users and no exceeding fileset give ok.         *)
(* opts.critical is called after an exception only.                        *)
(***************************************************************************)
C11_SeverityFollowsCounts ==
    /\ \A m \in 1..Len(monitor) : monitor[m].call = "critical" => Raised
    /\ pc = "done" =>
          /\ ~Raised
          /\ monitor = <<Report("epilogue", "quota check completed", stats)>>
          /\ Severity(monitor[1].stats) = Worst({CountRank(name) : name \in DOMAIN VscStorage})
          /\ (\A name \in DOMAIN exceeding_users :
                 Len(exceeding_users[name]) < 20 /\ Len(exceeding_filesets[name]) = 0)
                => Severity(monitor[1].stats) = 0

\* nineteen exceeding users and no exceeding fileset: the run reports ok
C11_Witness ==
    /\ pc = "done"
    /\ \E name \in DOMAIN exceeding_users :
          Len(exceeding_users[name]) = 19 /\ Len(exceeding_filesets[name]) = 0
    /\ Severity(monitor[1].stats) = 0

\* the rows of one kind that the backend reported for the filesystem of a storage
RawRows(name, kind) == quota[VscStorage[name].filesystem][kind]

FactorOf(name) == VscStorage[name].data_replication_factor

\* the entities of a sequence of exceeding items
Ids(items) == {items[k][1] : k \in 1..Len(items)}

Kinds == {"USR", "FILESET"}

ExceedingDict(kind) == IF kind = "USR" THEN exceeding_users ELSE exceeding_filesets

BlockAtHard(row, f) == row.blockUsage * f >= row.blockLimit

BlockBetween(row, f) ==
    row.blockUsage * f >= row.blockQuota /\ row.blockUsage * f < row.blockLimit

BlockBelow(row, f) == row.blockUsage * f < row.blockQuota

FilesAtHard(row) == row.filesUsage >= row.filesLimit

FilesBetween(row) == row.filesUsage >= row.filesQuota /\ row.filesUsage < row.filesLimit

FilesBelow(row) == row.filesUsage < row.filesQuota

\* the grace expiry is absent or strictly after the evaluation time
WithinGrace(grace, t) == \A expiry \in grace : expiry > t

\* the grace expiry is set and the evaluation time is at or after it
GraceExpired(grace, t) == \E expiry \in grace : expiry <= t

(***************************************************************************)
(* C12: once a storage is classified, every row of its filesystem's report *)
(* whose block usage times the replication factor of the storage is at or  *)
(* above the block hard limit has its entity in the exceeding sequence of  *)
(* its kind for that storage, whatever the grace expiry, absent included.  *)
(***************************************************************************)
C12_HardBreachExceeds ==
    \A kind \in Kinds : \A name \in DOMAIN ExceedingDict(kind) :
        \A i \in 1..Len(RawRows(name, kind)) :
            BlockAtHard(RawRows(name, kind)[i], FactorOf(name))
                => i \in Ids(ExceedingDict(kind)[name])

\* factor 2, raw 100, soft 150, hard 200, no grace expiry: the user is exceeding
C12_Witness ==
    /\ "s1" \in DOMAIN exceeding_users
    /\ Len(RawRows("s1", "USR")) = 1
    /\ LET row == RawRows("s1", "USR")[1]
       IN  /\ row.blockUsage = 100 /\ row.blockQuota = 150 /\ row.blockLimit = 200
           /\ row.blockGrace = NoGrace
           /\ FilesBelow(row)
    /\ FactorOf("s1") = 2
    /\ Ids(exceeding_users["s1"]) = {1}

(***************************************************************************)
(* C13: once a storage is classified, a row with a dimension at or above   *)
(* its soft limit and below its hard limit, whose grace expiry is absent   *)
(* or strictly after the evaluation time, and whose other dimension is     *)
(* below its soft limit or in the same case, is not in the exceeding       *)
(* sequence; a row with a dimension between its limits whose grace expiry  *)
(* is at or before the evaluation time is in it.                           *)
(***************************************************************************)
C13_SoftBreachFollowsGrace ==
    \A kind \in Kinds : \A name \in DOMAIN ExceedingDict(kind) :
        \A i \in 1..Len(RawRows(name, kind)) :
            LET row == RawRows(name, kind)[i]
                f == FactorOf(name)
                blockTolerated == BlockBetween(row, f) /\ WithinGrace(row.blockGrace, now)
                filesTolerated == FilesBetween(row) /\ WithinGrace(row.filesGrace, now)
            IN  /\ ( /\ blockTolerated \/ filesTolerated
                     /\ blockTolerated \/ BlockBelow(row, f)
                     /\ filesTolerated \/ FilesBelow(row) )
                       => i \notin Ids(ExceedingDict(kind)[name])
                /\ ( \/ BlockBetween(row, f) /\ GraceExpired(row.blockGrace, now)
                     \/ FilesBetween(row) /\ GraceExpired(row.filesGrace, now) )
                       => i \in Ids(ExceedingDict(kind)[name])

\* a user between the block limits, classified at the very time the grace
\* period expires: exceeding
C13_Witness ==
    /\ "s1" \in DOMAIN exceeding_users
    /\ Len(RawRows("s1", "USR")) = 1
    /\ LET row == RawRows("s1", "USR")[1]
       IN  /\ BlockBetween(row, FactorOf("s1"))
           /\ row.blockGrace = {now}
           /\ FilesBelow(row)
    /\ Ids(exceeding_users["s1"]) = {1}

\* the storage whose report was normalised last
Normalized == {trace[k].storage : k \in {j \in 1..Len(trace) :
                    trace[j].op = "get_mmrepquota_maps" /\ ~trace[j].raised}}

(***************************************************************************)
(* C14: the quota map of a storage holds, per kind and in the report's     *)
(* order, the rows of the report of that storage's own filesystem, the     *)
(* block usage multiplied by that storage's own replication factor and     *)
(* the file count as reported; a row below the soft limit on both          *)
(* dimensions after the scaling is never in an exceeding sequence.         *)
(***************************************************************************)
C14_NormalizedPerTarget ==
    /\ \A name \in Normalized : \A kind \in Kinds :
          /\ Len(quota_storage_map[kind]) = Len(RawRows(name, kind))
          /\ \A i \in 1..Len(RawRows(name, kind)) :
                LET row == RawRows(name, kind)[i]
                    item == quota_storage_map[kind][i]
                IN  /\ item[1] = i
                    /\ item[2].used = row.blockUsage * FactorOf(name)
                    /\ item[2].files_used = row.filesUsage
                    /\ item[2].soft = row.blockQuota /\ item[2].hard = row.blockLimit
                    /\ item[2].files_soft = row.filesQuota
                    /\ item[2].files_hard = row.filesLimit
    /\ \A k \in 1..Len(trace) :
          (trace[k].op = "get_mmrepquota_maps" /\ ~trace[k].raised)
              => trace[k].n = FactorOf(trace[k].storage)
    /\ \A kind \in Kinds : \A name \in DOMAIN ExceedingDict(kind) :
          \A i \in 1..Len(RawRows(name, kind)) :
              (BlockBelow(RawRows(name, kind)[i], FactorOf(name))
                  /\ FilesBelow(RawRows(name, kind)[i]))
                  => i \notin Ids(ExceedingDict(kind)[name])

\* factor 2, raw 60, soft 150: 120 blocks in the quota map, not exceeding
C14_Witness ==
    /\ "s1" \in DOMAIN exceeding_users
    /\ Len(RawRows("s1", "USR")) = 1
    /\ RawRows("s1", "USR")[1].blockUsage = 60
    /\ FilesBelow(RawRows("s1", "USR")[1])
    /\ quota_storage_map.USR[1][2].used = 120
    /\ quota_storage_map.USR[1][2].files_used = RawRows("s1", "USR")[1].filesUsage
    /\ exceeding_users["s1"] = <<>>


\* the events of evaluating a storage: a skip or a step of the loop body
TargetOps == {"error_nonexistent_filesystem", "error_no_quota_defined"}
                 \cup ProcessingOps \cup StatsOps

\* the positions in the trace of the calls of op
CallsOf(op) == {k \in 1..Len(trace) : trace[k].op = op}

(***************************************************************************)
(* C15: list_filesystems, list_filesets and list_quota are each called at  *)
(* most once in a run; whenever a storage is being evaluated (the loop has *)
(* been entered) each of them has been called exactly once and has         *)
(* returned, and all three calls come before the first event of any        *)
(* storage, so none is made again during the loop.                         *)
(***************************************************************************)
C15_SnapshotQueriedOnce ==
    \A op \in BackendOps :
        /\ Cardinality(CallsOf(op)) <= 1
        /\ \A k \in 1..Len(trace) :
              trace[k].op \in TargetOps =>
                  \E j \in 1..(k - 1) : trace[j].op = op /\ ~trace[j].raised
        /\ pc \in {"for", "epilogue", "done"} \cup InTargetPcs =>
              /\ Cardinality(CallsOf(op)) = 1
              /\ Returned(op)

\* two storages processed to the end on the one snapshot
C15_Witness ==
    /\ pc = "done"
    /\ Len(storage_opt) = 2
    /\ CompletedAt(1) /\ CompletedAt(2)
    /\ \A op \in BackendOps : Cardinality(CallsOf(op)) = 1


\* position a of the storage list was skipped before event k of the trace
SkippedBefore(a, k) ==
    \E j \in 1..(k - 1) :
        /\ trace[j].pos = a
        /\ trace[j].op \in {"error_nonexistent_filesystem", "error_no_quota_defined"}

\* every step of the loop body had run at position a before event k of the trace
DoneBefore(a, k) ==
    /\ \A op \in ProcessingOps :
          \E j \in 1..(k - 1) : trace[j].pos = a /\ trace[j].op = op /\ ~trace[j].raised
    /\ \E j \in 1..(k - 1) :
          trace[j].pos = a /\ trace[j].op \in {"warning_filesets", "debug_no_filesets"}
    /\ \E j \in 1..(k - 1) :
          trace[j].pos = a /\ trace[j].op \in {"warning_users", "debug_no_users"}

(***************************************************************************)
(* C16: the storages are evaluated one at a time in the order of the       *)
(* configuration: every skip and every step of the loop body is for the    *)
(* storage name at its position, positions never decrease along the run,   *)
(* and when a step happens at position b every earlier position a has been *)
(* skipped or has run all its steps; the same holds of the position that   *)
(* the loop is at.                                                         *)
(***************************************************************************)
C16_TargetsInConfigurationOrder ==
    /\ \A k \in 1..Len(trace) :
          trace[k].op \in TargetOps =>
              /\ trace[k].pos \in 1..Len(storage_opt)
              /\ trace[k].storage = storage_opt[trace[k].pos]
              /\ \A j \in 1..(k - 1) :
                    trace[j].op \in TargetOps => trace[j].pos <= trace[k].pos
              /\ \A a \in 1..(trace[k].pos - 1) : SkippedBefore(a, k) \/ DoneBefore(a, k)
    /\ pc \in {"for", "epilogue", "done"} \cup InTargetPcs =>
          \A a \in 1..(idx - 1) :
              SkippedBefore(a, Len(trace) + 1) \/ DoneBefore(a, Len(trace) + 1)

\* two different storages, the first done when the second is started
C16_Witness ==
    /\ Len(storage_opt) = 2
    /\ storage_opt[1] # storage_opt[2]
    /\ idx = 2
    /\ pc = "process_fileset_quota"
    /\ DoneBefore(1, Len(trace))
    /\ trace[Len(trace)].op = "get_mmrepquota_maps"
    /\ trace[Len(trace)].pos = 2


\* main() has returned, has exited or was left by an exception
Ended == pc \in {"done", "sys_exit", "uncaught"}

\* at most one report is ever made; none while the run goes on, one when it
\* has ended: opts.critical after an exception, opts.epilogue otherwise, and
\* then every position of the storage list has been skipped or is done
OneOutcome ==
    /\ Len(monitor) <= 1
    /\ ~Ended => monitor = <<>>
    /\ Ended => Len(monitor) = 1
    /\ \A m \in 1..Len(monitor) :
          /\ monitor[m].call \in {"critical", "epilogue"}
          /\ monitor[m].call = "critical" <=> Raised
          /\ monitor[m].call = "epilogue" <=> pc = "done"
          /\ monitor[m].call = "epilogue" =>
                \A a \in 1..Len(storage_opt) :
                    SkippedBefore(a, Len(trace) + 1) \/ DoneBefore(a, Len(trace) + 1)

(***************************************************************************)
(* C17, as claimed: every run ends, and ends with exactly one monitoring   *)
(* outcome: the critical report after an exception or the epilogue, never  *)
(* both and never neither; the epilogue is only issued when every storage  *)
(* has been skipped or is done. A failure that the handler does not catch, *)
(* or that it cannot format, ends the run with neither.                    *)
(***************************************************************************)
C17_ExactlyOneOutcome == []OneOutcome /\ <>Ended

\* the notifications of the dispatcher calls that returned: one per exceeding
\* item of a call that was not a dry run
RECURSIVE SentBy(_)
SentBy(calls) ==
    IF calls = <<>> THEN <<>>
    ELSE LET e == Head(calls)
         IN  (IF e.raised \/ e.dry THEN <<>>
              ELSE [i \in 1..Len(e.items) |->
                      [kind |-> IF e.op = "notify_exceeding_filesets" THEN "FILESET" ELSE "USR",
                       storage |-> e.storage,
                       entity |-> e.items[i][1]]])
             \o SentBy(Tail(calls))

(***************************************************************************)
(* C18: what the dispatcher calls that returned have delivered stays       *)
(* delivered: at every point of a run, also after a later call has raised  *)
(* and the handler has run, the deliveries start with the notifications of *)
(* all returned dispatcher calls in order, while the report made after a   *)
(* failure carries no statistics.                                          *)
(***************************************************************************)
C18_NotificationsNotRolledBack ==
    LET sent == SentBy(SelectSeq(trace, IsDispatch))
    IN  /\ Len(sent) <= Len(deliveries)
        /\ SubSeq(deliveries, 1, Len(sent)) = sent
        /\ Raised => \A m \in 1..Len(monitor) :
                         monitor[m].call = "critical" /\ monitor[m].stats = EmptyDict

\* the first storage was notified of its exceeding users, the second failed:
\* the notifications stand and the critical report has no statistics
C18_Witness ==
    /\ pc = "sys_exit"
    /\ ~dry_run
    /\ DoneBefore(1, Len(trace))
    /\ Len(exceeding_users[storage_opt[1]]) > 0
    /\ trace[Len(trace)].raised
    /\ trace[Len(trace)].pos = 2
    /\ \E d \in 1..Len(deliveries) :
          deliveries[d].storage = storage_opt[1] /\ deliveries[d].kind = "USR"
    /\ monitor = <<Report("critical", "Script failed in a horrible way", EmptyDict)>>


(***************************************************************************)
(* C19, as claimed: the count logged in "storage_name %s found %d filesets *)
(* that are exceeding their quota" is the number of exceeding filesets of  *)
(* that storage. Line 140 logs len(exceeding_filesets), the number of      *)
(* storages classified so far, so this does not hold.                      *)
(***************************************************************************)
C19_FilesetLogCountIsCount ==
    \A k \in 1..Len(trace) :
        trace[k].op = "warning_filesets" => trace[k].n = Len(trace[k].items)

====
